---------------------------- MODULE Spec2Model ----------------------------
(***************************************************************************)
(* Slashing pipeline of srml/slashing and srml/staking:                    *)
(*   - MisconductModule::rolling_data / era_data / slash                   *)
(*     (srml/slashing/src/lib.rs)                                          *)
(*   - StakingSlasher::slash (srml/staking/src/slash.rs)                   *)
(*                                                                         *)
(* Integer widths are scaled down so that TLC can enumerate them: the      *)
(* 64-bit vote type is VoteBits wide and the 128-bit ExtendedBalance is    *)
(* twice as wide.  All arithmetic is done modulo / saturated at the        *)
(* scaled width exactly where the Rust code wraps, saturates or panics.    *)
(***************************************************************************)
EXTENDS Integers, Sequences, FiniteSets, TLC

VARIABLES
    build,        \* "debug" (overflow checks on) or "release" (wrapping)
    balanceBits,  \* width of BalanceOf<T>: the u64 or the u128 configuration
    slashable,    \* ledger: slashable_balance per account (exposure total)
    free,         \* ledger: free balance per account
    misconduct,   \* the Misconduct / OnEndEra implementor's state
    last,         \* what the most recent call did
    prev,         \* what the call before it did
    calls         \* number of calls made so far

vars == <<build, balanceBits, slashable, free, misconduct, last, prev, calls>>

---------------------------------------------------------------------------
(* Bounds *)

\* scaled width of u64 (the CurrencyToVote intermediate)
VoteBits == 11
\* number of calls in one behaviour
MaxCalls == 2

---------------------------------------------------------------------------
(* Integer types *)

RECURSIVE Pow2(_)
Pow2(n) == IF n = 0 THEN 1 ELSE 2 * Pow2(n - 1)

\* ExtendedBalance = u128, twice the width of u64
ExtendedBits == 2 * VoteBits

VoteMax == Pow2(VoteBits) - 1

ExtendedMax == Pow2(ExtendedBits) - 1

BalanceMax(bits) == Pow2(bits) - 1

Accounts == {11, 21}

\* Fraction<T>: a `denominator` field and a `numerator` field
Fraction(d, n) == [denominator |-> d, numerator |-> n]

denominator(f) == f.denominator

numerator(f) == f.numerator

---------------------------------------------------------------------------
(* CurrencyToVoteHandler and the closures of StakingSlasher::slash *)

\* Convert<u64, u64>::convert(x) = x and Convert<u128, u64>::convert(x) = x as u64:
\* both are "keep the low 64 bits"
convert_to_u64(x) == x % Pow2(VoteBits)

\* to_u128 = |b| Convert<BalanceOf<T>, u64>::convert(b) as ExtendedBalance
to_u128(b) == convert_to_u64(b)

\* to_balance = |b| Convert<ExtendedBalance, BalanceOf<T>>::convert(b):
\* `x as u64` for a 64-bit balance; for a 128-bit balance nothing is cut
to_balance(x, bits) == x % Pow2(bits)

\* whether a * b exceeds max, decided without forming the product
Overflows(a, b, max) == b # 0 /\ a > max \div b

\* (a * b) mod m by double-and-add, never forming the full product
RECURSIVE wrapping_mul(_, _, _)
wrapping_mul(a, b, m) ==
    IF b = 0 THEN 0
    ELSE (2 * wrapping_mul(a, b \div 2, m) + (IF b % 2 = 1 THEN a % m ELSE 0)) % m

\* mutation: the product wraps modulo 2^128 instead of saturating
saturating_mul_wraps(a, b) == wrapping_mul(a, b, Pow2(ExtendedBits))

\* u128::saturating_mul
saturating_mul(a, b) == IF Overflows(a, b, ExtendedMax) THEN ExtendedMax ELSE a * b

\* mutation: a zero divisor is taken as one
checked_div_by_one(a, n) == <<a \div (IF n = 0 THEN 1 ELSE n)>>

\* mutation: the quotient is rounded up
checked_div_ceil(a, n) == IF n = 0 THEN <<>> ELSE <<(a + n - 1) \div n>>

\* u128::checked_div: None is <<>>, Some(q) is <<q>>
checked_div(a, n) == IF n = 0 THEN <<>> ELSE <<a \div n>>

\* Option::unwrap_or
unwrap_or(opt, dflt) == IF opt = <<>> THEN dflt ELSE opt[1]

---------------------------------------------------------------------------
(* The staking ledger *)

Ledger(s, f) == [slashable |-> s, free |-> f]

\* <Module<T>>::slashable_balance(who): the exposure total of `who`
slashable_balance(l, who) == l.slashable[who]

Min(a, b) == IF a <= b THEN a ELSE b

\* <Module<T>>::slash_validator(who, slash): takes `slash` from the free
\* balance, clamped at what is there; the exposure is left as it is
slash_validator(l, who, slash) ==
    Ledger(l.slashable,
           [l.free EXCEPT ![who] = l.free[who] - Min(l.free[who], slash)])

---------------------------------------------------------------------------
(* The Misconduct / OnEndEra policy *)

\* the state of the implementor: its severity estimate and the validators
\* reported so far in the era
Policy(sev, mis) == [severity |-> sev, misbehaved |-> mis]

\* Misconduct::on_misconduct: the policy re-estimates its severity (`estimate`
\* stands for whatever the policy derives from the report) and records the
\* reported validators
on_misconduct(m, misbehaved, estimate) ==
    Policy(estimate, m.misbehaved \o misbehaved)

\* Misconduct::severity
severity(m) == m.severity

\* OnEndEra::get_misbehaved
get_misbehaved(m) == m.misbehaved

\* Misconduct::as_misconduct_level: more than 10% is level 4, more than 1% is
\* level 3, more than 0.1% is level 2, anything else level 1
as_misconduct_level(sev) ==
    IF denominator(sev) * 10 > numerator(sev) THEN 4
    ELSE IF denominator(sev) * 100 > numerator(sev) THEN 3
    ELSE IF denominator(sev) * 1000 > numerator(sev) THEN 2
    ELSE 1

---------------------------------------------------------------------------
(* StakingSlasher::slash *)

\* mutation: the two fields of the Fraction are taken the other way round
StakingSlashAmount_swapped(balance, sev, bits) ==
    LET b == to_u128(balance)
        d == saturating_mul(b, numerator(sev))
        n == denominator(sev)
    IN  to_balance(unwrap_or(checked_div(d, n), 0), bits)

\* lines 38-42: the amount handed to slash_validator
StakingSlashAmount(balance, sev, bits) ==
    LET b == to_u128(balance)
        d == saturating_mul(b, denominator(sev))
        n == numerator(sev)
    IN  to_balance(unwrap_or(checked_div(d, n), 0), bits)

\* the outcome of a call: the ledger after it, the slash_validator requests
\* it made in order, whether it panicked, the level it returned (0: none),
\* and the calls it made on its collaborators in order
Outcome(l, m, reqs, ab, lvl, sev, tr) ==
    [ledger |-> l, misconduct |-> m, requests |-> reqs, aborted |-> ab,
     level |-> lvl, severity |-> sev, trace |-> tr]

Request(who, amount) == [who |-> who, amount |-> amount]

StakingSlasher_slash(l, m, who, sev, bits) ==
    LET slash == StakingSlashAmount(slashable_balance(l, who), sev, bits)
    IN  Outcome(slash_validator(l, who, slash), m,
                <<Request(who, slash)>>, FALSE, 0, sev,
                <<"slashable_balance", "slash_validator">>)

---------------------------------------------------------------------------
(* MisconductModule *)

\* `a * b` on BalanceOf<T>: panics on overflow when overflow checks are on,
\* wraps otherwise
Mul(a, b, bits, bld) ==
    IF Overflows(a, b, BalanceMax(bits))
    THEN [panic |-> bld = "debug", value |-> wrapping_mul(a, b, Pow2(bits))]
    ELSE [panic |-> FALSE, value |-> a * b]

\* `a / n` on BalanceOf<T>: panics on a zero divisor
Div(a, n) ==
    IF n = 0 THEN [panic |-> TRUE, value |-> 0]
    ELSE [panic |-> FALSE, value |-> a \div n]

\* mutation: the loop reads the free balance, which slash_validator lowers
RECURSIVE SlashLoop_free(_, _, _, _, _, _)
SlashLoop_free(misbehaved, i, sev, o, bits, bld) ==
    IF i > Len(misbehaved) \/ o.aborted THEN o
    ELSE LET who == misbehaved[i]
             balance == o.ledger.free[who]
             d == denominator(sev)
             n == numerator(sev)
             prod == Mul(balance, d, bits, bld)
             quot == Div(prod.value, n)
         IN  IF prod.panic \/ quot.panic
             THEN [o EXCEPT !.aborted = TRUE,
                            !.trace = @ \o <<"slashable_balance">>]
             ELSE SlashLoop_free(misbehaved, i + 1, sev,
                    [o EXCEPT !.ledger = slash_validator(@, who, quot.value),
                              !.requests = Append(@, Request(who, quot.value)),
                              !.trace = @ \o <<"slashable_balance", "slash_validator">>],
                    bits, bld)

\* the body of `for who in misbehaved`, from entry i on
RECURSIVE SlashLoop(_, _, _, _, _, _)
SlashLoop(misbehaved, i, sev, o, bits, bld) ==
    IF i > Len(misbehaved) \/ o.aborted THEN o
    ELSE LET who == misbehaved[i]
             balance == slashable_balance(o.ledger, who)
             d == denominator(sev)
             n == numerator(sev)
             prod == Mul(balance, d, bits, bld)
             quot == Div(prod.value, n)
         IN  IF prod.panic \/ quot.panic
             THEN [o EXCEPT !.aborted = TRUE,
                            !.trace = @ \o <<"slashable_balance">>]
             ELSE SlashLoop(misbehaved, i + 1, sev,
                    [o EXCEPT !.ledger = slash_validator(@, who, quot.value),
                              !.requests = Append(@, Request(who, quot.value)),
                              !.trace = @ \o <<"slashable_balance", "slash_validator">>],
                    bits, bld)

Returned(o, lvl) ==
    IF o.aborted THEN o
    ELSE [o EXCEPT !.level = lvl, !.trace = @ \o <<"as_misconduct_level">>]

\* mutation: the severity is read before the policy is told of the report
rolling_data_stale(l, m, misbehaved, estimate, bits, bld) ==
    LET sev == severity(m)
        m1 == on_misconduct(m, misbehaved, estimate)
        o == SlashLoop(misbehaved, 1, sev,
                 Outcome(l, m1, <<>>, FALSE, 0, sev, <<"severity", "on_misconduct">>),
                 bits, bld)
    IN  Returned(o, as_misconduct_level(sev))

\* MisconductModule::rolling_data
rolling_data(l, m, misbehaved, estimate, bits, bld) ==
    LET m1 == on_misconduct(m, misbehaved, estimate)
        sev == severity(m1)
        o == SlashLoop(misbehaved, 1, sev,
                 Outcome(l, m1, <<>>, FALSE, 0, sev, <<"on_misconduct", "severity">>),
                 bits, bld)
    IN  Returned(o, as_misconduct_level(sev))

\* MisconductModule::era_data
era_data(l, m, misbehaved, estimate) ==
    LET m1 == on_misconduct(m, misbehaved, estimate)
    IN  Outcome(l, m1, <<>>, FALSE, 0, severity(m1), <<"on_misconduct">>)

\* MisconductModule::slash
slash(l, m, bits, bld) ==
    LET sev == severity(m)
        misbehaved == get_misbehaved(m)
        o == SlashLoop(misbehaved, 1, sev,
                 Outcome(l, m, <<>>, FALSE, 0, sev, <<"severity", "get_misbehaved">>),
                 bits, bld)
    IN  Returned(o, as_misconduct_level(sev))

---------------------------------------------------------------------------
(* Staking::slash_end_of_era *)

RECURSIVE SlasherLoop(_, _, _, _, _)
SlasherLoop(misbehaved, i, sev, o, bits) ==
    IF i > Len(misbehaved) THEN o
    ELSE LET one == StakingSlasher_slash(o.ledger, o.misconduct, misbehaved[i], sev, bits)
         IN  SlasherLoop(misbehaved, i + 1, sev,
                [o EXCEPT !.ledger = one.ledger,
                          !.requests = @ \o one.requests,
                          !.trace = @ \o one.trace],
                bits)

\* the policy is told of the report, and every misbehaving validator is
\* slashed through StakingSlasher::slash at the severity it then reports
slash_end_of_era(l, m, misbehaved, estimate, bits) ==
    LET m1 == on_misconduct(m, misbehaved, estimate)
        sev == severity(m1)
        o == SlasherLoop(misbehaved, 1, sev,
                 Outcome(l, m1, <<>>, FALSE, 0, sev, <<"on_misconduct", "severity">>),
                 bits)
    IN  Returned(o, as_misconduct_level(sev))

---------------------------------------------------------------------------
(* State machine *)

\* severities a policy may report: 1.5%, the whole stake, and a zero divisor
Severities == {Fraction(3, 200), Fraction(1, 1), Fraction(3, 0)}

\* T::Severity converts to and from BalanceOf<T>: it is as wide as the balance
SlasherSeverities(bits) ==
    {Fraction(d, n) : d \in {x \in {3, VoteMax, ExtendedMax} : x <= BalanceMax(bits)},
                      n \in {0, 1, 200}}

\* slashable balances: small, the reference 1250, and the edges of the widths
Balances(bits) == {b \in {2, 1250, VoteMax, VoteMax + 1, ExtendedMax} : b <= BalanceMax(bits)}

\* misbehaving sequences: none, one, two in either order, one reported twice
Misbehaved == {<<>>, <<11>>, <<11, 21>>, <<21, 11>>, <<11, 11>>}

Call(op, arg, o) ==
    [op |-> op, misbehaved |-> arg, slashable0 |-> slashable, free0 |-> free,
     before |-> misconduct, out |-> o]

NoCall == [op |-> "none"]

Init ==
    /\ build \in {"debug", "release"}
    /\ balanceBits \in {VoteBits, ExtendedBits}
    /\ slashable \in {f \in [Accounts -> Balances(balanceBits)] :
                         f[21] \in {1250, BalanceMax(balanceBits)}}
    /\ free = [a \in Accounts |-> IF a = 11 THEN 1000 ELSE 2000]
    /\ misconduct = Policy(Fraction(0, 1), <<>>)
    /\ last = NoCall
    /\ prev = NoCall
    /\ calls = 0

Apply(op, arg, o) ==
    /\ calls < MaxCalls
    /\ calls' = calls + 1
    /\ slashable' = o.ledger.slashable
    /\ free' = o.ledger.free
    /\ misconduct' = o.misconduct
    /\ prev' = last
    /\ last' = Call(op, arg, o)
    /\ UNCHANGED <<build, balanceBits>>

RollingData ==
    \E misbehaved \in Misbehaved, estimate \in Severities :
        Apply("rolling_data", misbehaved,
              rolling_data(Ledger(slashable, free), misconduct, misbehaved,
                           estimate, balanceBits, build))

EraData ==
    \E misbehaved \in Misbehaved, estimate \in Severities :
        Apply("era_data", misbehaved,
              era_data(Ledger(slashable, free), misconduct, misbehaved, estimate))

Slash ==
    Apply("slash", get_misbehaved(misconduct),
          slash(Ledger(slashable, free), misconduct, balanceBits, build))

Next == RollingData \/ EraData \/ Slash

Spec == Init /\ [][Next]_vars

StakingSlash ==
    \E who \in Accounts, sev \in SlasherSeverities(balanceBits) :
        Apply("StakingSlasher::slash", <<who>>,
              StakingSlasher_slash(Ledger(slashable, free), misconduct, who, sev,
                                   balanceBits))

SlashEndOfEra ==
    \E misbehaved \in Misbehaved, estimate \in Severities :
        Apply("slash_end_of_era", misbehaved,
              slash_end_of_era(Ledger(slashable, free), misconduct, misbehaved,
                               estimate, balanceBits))

NextSlasher == StakingSlash \/ SlashEndOfEra

SpecSlasher == Init /\ [][NextSlasher]_vars

---------------------------------------------------------------------------
(* Properties of StakingSlasher::slash, under SpecSlasher *)

IsSlasherCall(c) == c.op \in {"StakingSlasher::slash", "slash_end_of_era"}

IsWorkflowCall(c) == c.op \in {"rolling_data", "slash"}

Entries(c) == 1 .. Len(c.out.requests)

\* the slashable balance the i-th request of call c was computed from
BalanceOfEntry(c, i) == c.slashable0[c.out.requests[i].who]

Den(c) == denominator(c.out.severity)

Num(c) == numerator(c.out.severity)

\* C1: whenever the numerator field of the severity is 0, StakingSlasher::slash
\* completes and the amount it passes to slash_validator is 0, for every
\* account and every slashable balance.
C1_ZeroNumeratorSlashesZero ==
    (IsSlasherCall(last) /\ Num(last) = 0) =>
        /\ ~last.out.aborted
        /\ Len(last.out.requests) = Len(last.misbehaved)
        /\ \A i \in Entries(last) : last.out.requests[i].amount = 0

C1_Witness ==
    /\ last.op = "StakingSlasher::slash"
    /\ Num(last) = 0
    /\ Den(last) > 0
    /\ BalanceOfEntry(last, 1) > 0
    /\ last.out.requests[1].amount = 0

Occurrences(s, a) == Cardinality({i \in 1 .. Len(s) : s[i] = a})

\* C4: the end-of-era slashing of a validator whose slashable balance is 1250
\* and free balance 1000, at severity Fraction{3, 200}, requests 18, leaves
\* the free balance at 982 and returns level 3; and whenever the numerator
\* field is nonzero and no step of the conversion overflows, the slash is
\* floor(balance * denominator field / numerator field).
C4_ReferenceScenario ==
    IsSlasherCall(last) =>
        /\ \A i \in Entries(last) :
              LET b == BalanceOfEntry(last, i)
              IN  (/\ Num(last) # 0
                   /\ b <= VoteMax
                   /\ ~Overflows(b, Den(last), ExtendedMax)
                   /\ (b * Den(last)) \div Num(last) <= BalanceMax(balanceBits))
                  => last.out.requests[i].amount = (b * Den(last)) \div Num(last)
        /\ (/\ last.op = "slash_end_of_era"
             /\ last.out.severity = Fraction(3, 200)
             /\ Occurrences(last.misbehaved, 11) = 1
             /\ last.slashable0[11] = 1250
             /\ last.free0[11] = 1000)
            => /\ \E i \in Entries(last) : last.out.requests[i] = Request(11, 18)
               /\ free[11] = 982
               /\ last.out.level = 3

C4_Witness ==
    /\ last.op = "slash_end_of_era"
    /\ last.out.severity = Fraction(3, 200)
    /\ last.misbehaved = <<11, 21>>
    /\ last.slashable0[11] = 1250
    /\ last.free0[11] = 1000
    /\ last.out.requests[1] = Request(11, 18)
    /\ free[11] = 982
    /\ last.out.level = 3

\* C5: at a fixed severity with a nonzero numerator field, a validator with
\* the smaller slashable balance is never slashed more than one with the larger.
C5_SlashMonotoneInBalance ==
    (/\ prev.op = "StakingSlasher::slash"
     /\ last.op = "StakingSlasher::slash"
     /\ prev.out.severity = last.out.severity
     /\ Num(last) # 0
     /\ BalanceOfEntry(prev, 1) <= BalanceOfEntry(last, 1))
    => prev.out.requests[1].amount <= last.out.requests[1].amount

\* floor(min(b * d, ExtendedMax) / n), and 0 for n = 0
SaturatedQuotient(b, d, n) ==
    IF n = 0 THEN 0
    ELSE (IF Overflows(b, d, ExtendedMax) THEN ExtendedMax ELSE b * d) \div n

\* s <= floor(b * d / n) for n # 0, decided without forming b * d
AtMostTrueSlash(s, b, d, n) ==
    IF d = 0 THEN s = 0 ELSE (s * n + d - 1) \div d <= b

\* C7: when the balance and the slash fit the 64-bit intermediate, widening
\* and narrowing change nothing; for any balance the widened value is at most
\* the balance, and the slash requested is at most
\* floor(balance * denominator field / numerator field).
C7_ConversionLossOneSided ==
    IsSlasherCall(last) =>
        \A i \in Entries(last) :
            LET b == BalanceOfEntry(last, i)
                s == last.out.requests[i].amount
            IN  /\ to_u128(b) <= b
                /\ b <= VoteMax => to_u128(b) = b
                /\ (b <= VoteMax /\ SaturatedQuotient(b, Den(last), Num(last)) <= VoteMax)
                       => s = SaturatedQuotient(b, Den(last), Num(last))
                /\ Num(last) # 0 => AtMostTrueSlash(s, b, Den(last), Num(last))

C7_Witness ==
    /\ last.op = "StakingSlasher::slash"
    /\ BalanceOfEntry(last, 1) > VoteMax
    /\ to_u128(BalanceOfEntry(last, 1)) < BalanceOfEntry(last, 1)
    /\ Num(last) # 0
    /\ last.out.requests[1].amount > 0

---------------------------------------------------------------------------
(* Properties of MisconductModule, under Spec *)

\* what `(balance * d) / n` on BalanceOf<T> yields when it does not panic
RawAmount(b, sev) ==
    Div(Mul(b, denominator(sev), balanceBits, build).value, numerator(sev)).value

\* C3: rolling_data and the era-end slash always complete, and request for
\* every misbehaving validator the amount StakingSlasher::slash would request:
\* 0 on a zero numerator field, the saturated product's quotient on overflow.
C3_WorkflowsUseSafeConversion ==
    IsWorkflowCall(last) =>
        /\ ~last.out.aborted
        /\ Len(last.out.requests) = Len(last.misbehaved)
        /\ \A i \in Entries(last) :
              last.out.requests[i].amount =
                  StakingSlashAmount(BalanceOfEntry(last, i), last.out.severity, balanceBits)

C8_RollingOrder ==
    last.op = "rolling_data" =>
        /\ last.out.trace[1] = "on_misconduct"
        /\ last.out.trace[2] = "severity"
        /\ Cardinality({k \in 1 .. Len(last.out.trace) :
                             last.out.trace[k] = "on_misconduct"}) = 1
        /\ last.out.severity = severity(misconduct)
        /\ Len(last.out.requests) <= Len(last.misbehaved)
        /\ \A i \in Entries(last) :
              /\ last.out.requests[i].who = last.misbehaved[i]
              /\ last.out.requests[i].amount =
                     RawAmount(BalanceOfEntry(last, i), severity(misconduct))
        /\ ~last.out.aborted =>
              /\ Len(last.out.requests) = Len(last.misbehaved)
              /\ last.out.level = as_misconduct_level(severity(misconduct))

C8_Witness ==
    /\ last.op = "rolling_data"
    /\ last.misbehaved = <<21, 11>>
    /\ last.before.severity # severity(misconduct)
    /\ ~last.out.aborted
    /\ last.out.requests[1].who = 21
    /\ last.out.requests[2].who = 11
    /\ last.out.level = 3

InSeq(s, a) == \E i \in 1 .. Len(s) : s[i] = a

\* C10: a balance changes only in a rolling_data or slash call whose
\* misbehaving sequence holds the account, and such a call makes exactly one
\* slash_validator request per entry of the sequence; era_data makes none, a
\* call on an empty sequence makes none, and the era-end slash leaves the
\* policy's severity as it was.
C10_FrameOfSlashing ==
    last.op \in {"rolling_data", "era_data", "slash"} =>
        /\ \A a \in Accounts :
              (free[a] # last.free0[a] \/ slashable[a] # last.slashable0[a])
                  => IsWorkflowCall(last) /\ InSeq(last.misbehaved, a)
        /\ IsWorkflowCall(last) =>
              /\ Len(last.out.requests) = Len(last.misbehaved)
              /\ \A i \in Entries(last) : last.out.requests[i].who = last.misbehaved[i]
        /\ last.op = "era_data" => last.out.requests = <<>>
        /\ last.misbehaved = <<>> => last.out.requests = <<>>
        /\ last.op = "slash" => severity(misconduct) = severity(last.before)

=============================================================================
